---- MODULE Spec2Model ----
(***************************************************************************)
(* Order intake handler of src/lambda/Place-Order.py: the pydantic request *)
(* models, the business-hours gate, the honeypot, the Turnstile check, the *)
(* e-mail domain check, the two SES sends and the mapping of each outcome  *)
(* to an HTTP response.                                                    *)
(*                                                                         *)
(* Money is counted in cents.  Strings that the code takes apart (the      *)
(* e-mail address, the uuid) are sequences of tokens or characters.        *)
(***************************************************************************)
EXTENDS Integers, Sequences, FiniteSets, TLC

(***************************************************************************)
(* Request slots.  A Lambda execution environment runs one invocation at a *)
(* time, so a request is taken only when no other is being handled.        *)
(***************************************************************************)
Requests == {1, 2}

(***************************************************************************)
(* Configuration read from the environment at import time.                 *)
(***************************************************************************)
BUSINESS_EMAIL == <<"owner", "@", "shop.example">>
NO_REPLY_EMAIL == <<"no-reply", "@", "shop.example">>

(***************************************************************************)
(* Sample values of the request fields.                                    *)
(***************************************************************************)
Phones == {"555-123-4567", "12345"}

\* The sample phone numbers the pattern matches.
PHONE_PATTERN == {"555-123-4567"}

Emails ==
  { <<"Ann", "@", "example.com">>,
    <<"bot", "@", "mailinator.com">>,
    <<"not-an-email">> }

\* disposable_email_domains.blocklist, restricted to the sample domains.
blocklist == {"mailinator.com"}

Honeypots == {"", "http://spam.example"}

ItemTea  == [qty |-> 1, price |-> 1000, pricePerUnit |-> 1000]
ItemMugs == [qty |-> 2, price |-> 1000, pricePerUnit |-> 500]
ItemNone == [qty |-> 0, price |-> 0, pricePerUnit |-> 0]
ItemCase == [qty |-> 3, price |-> 1000, pricePerUnit |-> 333]

GoodItems == [n \in {"tea", "mugs"} |-> IF n = "tea" THEN ItemTea ELSE ItemMugs]

GoodCart == [items |-> GoodItems, totalQty |-> 3, totalPrice |-> 2000]

Carts ==
  { GoodCart,
    [GoodCart EXCEPT !.totalQty = 4],
    [GoodCart EXCEPT !.totalPrice = 2500],
    [GoodCart EXCEPT !.totalPrice = 2001],
    [items |-> [n \in {"mugs"} |-> ItemCase], totalQty |-> 3, totalPrice |-> 1001],
    [items |-> [n \in {"mugs"} |-> ItemMugs], totalQty |-> 2, totalPrice |-> 1000],
    [items |-> [n \in {"tea", "none"} |-> IF n = "tea" THEN ItemTea ELSE ItemNone],
     totalQty |-> 1, totalPrice |-> 1000] }

(***************************************************************************)
(* Sums over the items of a cart.                                          *)
(***************************************************************************)
RECURSIVE SumOver(_, _, _)
SumOver(items, names, field) ==
  IF names = {} THEN 0
  ELSE LET n == CHOOSE x \in names : TRUE
       IN  (IF field = "qty" THEN items[n].qty ELSE items[n].price)
           + SumOver(items, names \ {n}, field)

Abs(x) == IF x < 0 THEN -x ELSE x

NoError == ""

(***************************************************************************)
(* Prices are Python floats.  An amount written with two decimals, c       *)
(* cents, is parsed to the binary64 nearest to c/100; the model keeps such *)
(* a float x exactly, as [cents |-> c, err |-> n] with                      *)
(*     x = c/100 + n / (100 * 2^ErrScale).                                 *)
(* A float with exponent e is m * 2^(e - MantissaBits), so one unit in its *)
(* last place is Ulp(e) in the units of err.                               *)
(***************************************************************************)
MantissaBits == 52

\* 2^CentExp <= 0.01 < 2^(CentExp + 1): the exponent of the smallest amount.
CentExp == -7

ErrScale == MantissaBits - CentExp

\* Amounts stay below 2^(MaxExp + 1).
MaxExp == 9

RECURSIVE Pow2Mod(_, _)
Pow2Mod(p, m) == IF p = 0 THEN 1 ELSE (2 * Pow2Mod(p - 1, m)) % m

\* The exponent of c/100, c > 0:  2^e <= c/100 < 2^(e+1).
Exp2(c) ==
  CHOOSE e \in CentExp..MaxExp :
    /\ 100 * 2^(e - CentExp) <= c * 2^(-CentExp)
    /\ c * 2^(-CentExp) < 100 * 2^(e - CentExp + 1)

Ulp(e) == 100 * 2^(e - CentExp)

\* c/100 is a power of two (and then a float itself).
IsPow2(c) == \E e \in CentExp..MaxExp : 100 * 2^(e - CentExp) = c * 2^(-CentExp)

\* 2^(MantissaBits - e) modulo 200, for every exponent.
ScaleMod200 == [e \in CentExp..MaxExp |-> Pow2Mod(MantissaBits - e, 200)]

\* 100 * m - c * 2^(MantissaBits - e), for m the mantissa of the float
\* nearest to c/100.  The residue is a multiple of 4, so there is no tie.
Residue(c) ==
  LET rr == ((c % 100) * ScaleMod200[Exp2(c)]) % 100
  IN  IF rr < 50 THEN -rr ELSE 100 - rr

\* The mantissa of the float nearest to c/100 is odd.
OddMantissa(c) ==
  ((c % 200) * ScaleMod200[Exp2(c)] + Residue(c)) % 200 = 100

\* float("c/100"), c >= 0.
Float(c) ==
  [cents |-> c,
   err   |-> IF c = 0 THEN 0 ELSE Residue(c) * 2^(Exp2(c) - CentExp)]

\* a + b, rounded to nearest, ties to the even mantissa.
FloatAdd(a, b) ==
  LET cs == a.cents + b.cents
      x  == a.err + b.err
  IN  IF cs = 0 THEN Float(0)
      ELSE LET low  == IsPow2(cs) /\ x < 0
               U    == IF low THEN Ulp(Exp2(cs)) \div 2 ELSE Ulp(Exp2(cs))
               g0   == Float(cs).err
               odd0 == ~IsPow2(cs) /\ OddMantissa(cs)
               y    == x - g0
               j    == y \div U
               rem  == y - j * U
               up   == \/ 2 * rem > U
                       \/ 2 * rem = U /\ ((j % 2 = 1) # odd0)
           IN  [cents |-> cs, err |-> g0 + (IF up THEN j + 1 ELSE j) * U]

\* sum(item.price for item in items.values()): from the int 0, item by item.
RECURSIVE FloatSum(_, _)
FloatSum(items, names) ==
  IF names = {} THEN Float(0)
  ELSE LET n == CHOOSE x \in names : TRUE
       IN  FloatAdd(FloatSum(items, names \ {n}), Float(items[n].price))

\* abs(a - b) > tol, for tol the float of one cent.  The floats of amounts
\* one cent apart subtract without rounding, and rounding a larger
\* difference cannot bring it down to tol.
AbsDiffExceeds(a, b, tol) ==
  LET d == a.cents - b.cents
  IN  \/ Abs(d) > tol.cents
      \/ Abs(d) = tol.cents
           /\ (IF d > 0 THEN a.err - b.err ELSE b.err - a.err) > tol.err

(***************************************************************************)
(* CartItem: qty > 0, price >= 0, pricePerUnit >= 0.                       *)
(***************************************************************************)
CartItemValid(item) ==
  /\ item.qty > 0
  /\ item.price >= 0
  /\ item.pricePerUnit >= 0

ItemsValid(cart) == \A n \in DOMAIN cart.items : CartItemValid(cart.items[n])

(***************************************************************************)
(* Cart.  pydantic validates the fields in order (items, totalQty,         *)
(* totalPrice); a field's validators run in order (the Field constraint,   *)
(* then the class validators as declared) and stop at the first that       *)
(* raises; a field that failed is missing from `values`.                   *)
(***************************************************************************)
MinOrderQty == 3

\* Mutant: the threshold is one too low.
validate_min_quantity_two(v) ==
  IF v < MinOrderQty - 1 THEN "Our minimum order size for delivery is 3 items."
  ELSE NoError

validate_min_quantity(v) ==
  IF v < MinOrderQty THEN "Our minimum order size for delivery is 3 items."
  ELSE NoError

\* Mutant: the tolerance is ten dollars.
validate_total_price_dollar(v, cart, itemsInValues) ==
  IF itemsInValues
       /\ AbsDiffExceeds(FloatSum(cart.items, DOMAIN cart.items), Float(v), Float(1000))
  THEN "Total price does not match sum of item prices"
  ELSE NoError

validate_total_price(v, cart, itemsInValues) ==
  IF itemsInValues
       /\ AbsDiffExceeds(FloatSum(cart.items, DOMAIN cart.items), Float(v), Float(1))
  THEN "Total price does not match sum of item prices"
  ELSE NoError

\* Mutant: the sum is computed and not compared.
validate_total_qty_unchecked(v, cart, itemsInValues) == NoError

validate_total_qty(v, cart, itemsInValues) ==
  IF itemsInValues /\ SumOver(cart.items, DOMAIN cart.items, "qty") # v
  THEN "Total quantity does not match sum of item quantities"
  ELSE NoError

TotalQtyError(cart) ==
  IF cart.totalQty < 0 THEN "ensure this value is greater than or equal to 0"
  ELSE IF validate_min_quantity(cart.totalQty) # NoError
       THEN validate_min_quantity(cart.totalQty)
  ELSE validate_total_qty(cart.totalQty, cart, ItemsValid(cart))

TotalPriceError(cart) ==
  IF cart.totalPrice < 0 THEN "ensure this value is greater than or equal to 0"
  ELSE validate_total_price(cart.totalPrice, cart, ItemsValid(cart))

ItemsError(cart) ==
  IF ItemsValid(cart) THEN NoError ELSE "invalid cart item"

\* The errors of a cart, one per failed field, in field order.
CartErrors(cart) ==
  SelectSeq(<<ItemsError(cart), TotalQtyError(cart), TotalPriceError(cart)>>,
            LAMBDA e : e # NoError)

(***************************************************************************)
(* OrderRequest.                                                           *)
(***************************************************************************)
validate_phone_format(v) ==
  IF v \notin PHONE_PATTERN THEN "Please enter a valid phone number." ELSE NoError

\* EmailStr: local part, "@", domain.
EmailStrError(email) ==
  IF Len(email) = 3 /\ email[2] = "@" /\ email[1] # "" /\ email[3] # ""
  THEN NoError
  ELSE "value is not a valid email address"

OrderRequestErrors(req) ==
  SelectSeq(<<validate_phone_format(req.phone), EmailStrError(req.email)>>,
            LAMBDA e : e # NoError)
  \o CartErrors(req.order)

OrderRequests ==
  [phone : Phones, email : Emails, verification : Honeypots,
   order : Carts, cf_token : {"tok"}]

(***************************************************************************)
(* Every cart of up to two items with small quantities, prices of -0.01,   *)
(* 5.00 or 10.00, a declared quantity from -1 up, and a declared price of  *)
(* -0.01 or within PriceSlack cents of the sum of the item prices; in a    *)
(* request whose other fields are valid.                                   *)
(***************************************************************************)
MaxItemQty == 2
MaxTotalQty == 5
PriceSlack == 2

ItemNames == {"tea", "mugs"}

ItemPrices == {-1, 500, 1000}

CartItemSpace == [qty : 0..MaxItemQty, price : ItemPrices, pricePerUnit : {500}]

ItemMaps == UNION { [names -> CartItemSpace] : names \in SUBSET ItemNames }

CartSpace ==
  UNION { [items : {items},
           totalQty : -1..MaxTotalQty,
           totalPrice : {-1} \cup
                        { p \in (SumOver(items, DOMAIN items, "price") - PriceSlack)
                                 ..(SumOver(items, DOMAIN items, "price") + PriceSlack) :
                            p >= 0 }] :
          items \in ItemMaps }

CartRequests ==
  [phone : {p \in Phones : validate_phone_format(p) = NoError},
   email : {e \in Emails : EmailStrError(e) = NoError},
   verification : {""},
   order : CartSpace, cf_token : {"tok"}]

(***************************************************************************)
(* validate_business_hours: the wall clock in America/New_York.            *)
(***************************************************************************)
DayNames ==
  <<"Monday", "Tuesday", "Wednesday", "Thursday", "Friday", "Saturday", "Sunday">>

HoursPerDay == 24

OpenHour == 8

CloseHour == 20

Clocks == [weekday : 1..Len(DayNames), hour : 0..(HoursPerDay - 1)]

HoursMessage == "Our business hours are Mon-Sat 8am-8pm."

\* Mutant: the closing hour is compared with > instead of >=.
validate_business_hours_late(clock) ==
  LET current_day  == DayNames[clock.weekday]
      current_hour == clock.hour
  IN  IF current_day = "Sunday" THEN <<FALSE, HoursMessage>>
      ELSE IF current_hour < OpenHour \/ current_hour > CloseHour
           THEN <<FALSE, HoursMessage>>
      ELSE <<TRUE, "">>

\* <<is_valid, error_message>>
validate_business_hours(clock) ==
  LET current_day  == DayNames[clock.weekday]
      current_hour == clock.hour
  IN  IF current_day = "Sunday" THEN <<FALSE, HoursMessage>>
      ELSE IF current_hour < OpenHour \/ current_hour >= CloseHour
           THEN <<FALSE, HoursMessage>>
      ELSE <<TRUE, "">>

(***************************************************************************)
(* The order identifier: str(uuid.uuid4())[:8].upper().                    *)
(***************************************************************************)
UuidTail ==
  <<"-", "4", "b", "1", "d", "-", "4", "c", "0", "e", "-", "9", "a", "7", "f",
    "-", "0", "1", "2", "3", "4", "5", "6", "7", "8", "9", "a", "b">>

UuidHeads ==
  { <<"3", "f", "a", "8", "0", "c", "1", "e">>,
    <<"7", "7", "0", "4", "2", "9", "5", "5">> }

\* The values str(uuid.uuid4()) takes in the model: 36 characters.
Uuid4Strings == { h \o UuidTail : h \in UuidHeads }

Upper(c) ==
  CASE c = "a" -> "A" [] c = "b" -> "B" [] c = "c" -> "C"
    [] c = "d" -> "D" [] c = "e" -> "E" [] c = "f" -> "F"
    [] OTHER -> c

OrderIdLen == 8

MakeOrderId(uuid) == [i \in 1..OrderIdLen |-> Upper(uuid[i])]

(***************************************************************************)
(* verify_turnstile_token: what the POST to siteverify can come back with. *)
(***************************************************************************)
TurnstileOutcomes ==
  {"success_true", "success_false", "no_success_key", "invalid_json", "timeout"}

\* The call raises: httpx raises, or response.json() raises.
TurnstileRaises(outcome) == outcome \in {"invalid_json", "timeout"}

\* Mutant: result.get("success", True).
TurnstileReturnDefaultTrue(outcome) == outcome \in {"success_true", "no_success_key"}

\* result.get("success", False)
TurnstileReturn(outcome) == outcome = "success_true"

(***************************************************************************)
(* is_domain_real: blocklist, then MX, then NS; any exception is False.    *)
(***************************************************************************)
DnsOutcomes == {"records", "empty", "NoAnswer", "NXDOMAIN", "Timeout"}

DnsRaises(outcome) == outcome \in {"NoAnswer", "NXDOMAIN", "Timeout"}

LowerToken(t) == IF t = "Ann" THEN "ann" ELSE t

\* email.lower()
Lower(email) == [i \in 1..Len(email) |-> LowerToken(email[i])]

\* email.split('@')[-1]
DomainOf(email) == email[Len(email)]

\* An entry of a request's call log: what was called, and how it came back.
Call(name, result) == [call |-> name, result |-> result]

\* Mutant: only the named resolver exceptions are caught and the answers are
\* not tested for emptiness; a timeout or an empty answer lets the domain pass.
is_domain_real_open(email, mx, ns) ==
  LET domain == DomainOf(email)
      MX     == Call("resolve:MX", mx)
      NS     == Call("resolve:NS", ns)
  IN  IF domain \in blocklist THEN [result |-> FALSE, lookups |-> <<>>]
      ELSE IF mx \in {"NoAnswer", "NXDOMAIN"}
           THEN [result |-> FALSE, lookups |-> <<MX>>]
      ELSE IF ns \in {"NoAnswer", "NXDOMAIN"}
           THEN [result |-> FALSE, lookups |-> <<MX, NS>>]
      ELSE [result |-> TRUE, lookups |-> <<MX, NS>>]

\* [result, lookups]: the value returned and the DNS queries made, mx and ns
\* being what the resolver answers for the MX and the NS query.
is_domain_real(email, mx, ns) ==
  LET domain == DomainOf(email)
      MX     == Call("resolve:MX", mx)
      NS     == Call("resolve:NS", ns)
  IN  IF domain \in blocklist THEN [result |-> FALSE, lookups |-> <<>>]
      ELSE IF DnsRaises(mx) \/ mx = "empty"
           THEN [result |-> FALSE, lookups |-> <<MX>>]
      ELSE IF DnsRaises(ns) \/ ns = "empty"
           THEN [result |-> FALSE, lookups |-> <<MX, NS>>]
      ELSE [result |-> TRUE, lookups |-> <<MX, NS>>]

(***************************************************************************)
(* Responses.                                                              *)
(***************************************************************************)
JSONResponse(status_code, content) ==
  [status_code |-> status_code, content |-> content]

\* FastAPI renders a raised HTTPException as {"detail": detail}.
HTTPException(status_code, detail) ==
  [status_code |-> status_code, content |-> [detail |-> detail]]

\* FastAPI answers a request body that fails OrderRequest validation itself,
\* before process_order is called.
RequestValidationError(errors) ==
  [status_code |-> 422, content |-> [detail |-> errors]]

SuccessContent(order_id) ==
  [success |-> TRUE, orderId |-> order_id, message |-> "Order placed successfully"]

(***************************************************************************)
(* The e-mails of send_order_emails.                                       *)
(***************************************************************************)
\* Mutant: the first e-mail goes to the customer's address.
OwnerEmailToCustomer(order_data, order_id) ==
  [Source  |-> NO_REPLY_EMAIL,
   To      |-> Lower(order_data.email),
   Subject |-> <<"New Order Received - ", order_id>>,
   Html    |-> [template |-> "order", order_id |-> order_id,
                email |-> order_data.email, phone |-> order_data.phone,
                total_qty |-> order_data.order.totalQty,
                total_price |-> order_data.order.totalPrice]]

OwnerEmail(order_data, order_id) ==
  [Source  |-> NO_REPLY_EMAIL,
   To      |-> BUSINESS_EMAIL,
   Subject |-> <<"New Order Received - ", order_id>>,
   Html    |-> [template |-> "order", order_id |-> order_id,
                email |-> order_data.email, phone |-> order_data.phone,
                total_qty |-> order_data.order.totalQty,
                total_price |-> order_data.order.totalPrice]]

\* Mutant: the customer confirmation is rendered with an id of its own.
CustomerEmailOwnId(order_data, order_id) ==
  LET fresh == CHOOSE id \in { MakeOrderId(u) : u \in Uuid4Strings } : id # order_id
  IN  [Source  |-> NO_REPLY_EMAIL,
       To      |-> Lower(order_data.email),
       Subject |-> <<"Order Confirmation - ", fresh>>,
       Html    |-> [template |-> "customer_confirmation", order_id |-> fresh,
                    total_qty |-> order_data.order.totalQty,
                    total_price |-> order_data.order.totalPrice]]

CustomerEmail(order_data, order_id) ==
  [Source  |-> NO_REPLY_EMAIL,
   To      |-> Lower(order_data.email),
   Subject |-> <<"Order Confirmation - ", order_id>>,
   Html    |-> [template |-> "customer_confirmation", order_id |-> order_id,
                total_qty |-> order_data.order.totalQty,
                total_price |-> order_data.order.totalPrice]]

(***************************************************************************)
(* State.                                                                  *)
(*   now        the server's wall clock, US Eastern                        *)
(*   pc         where each request's handler stands                        *)
(*   request    the parsed OrderRequest of each request                    *)
(*   local      the local variables of process_order, as they get bound    *)
(*   trace      the gates evaluated and the outbound calls made, in order, *)
(*              each with how it came back                                 *)
(*   outbox     the e-mails SES accepted for the request, in order         *)
(*   responses  the responses produced for the request, in order           *)
(***************************************************************************)
VARIABLES now, pc, request, local, trace, outbox, responses

vars == <<now, pc, request, local, trace, outbox, responses>>

NoRequest == [phone |-> "", email |-> <<>>, verification |-> "",
              order |-> [items |-> <<>>, totalQty |-> 0, totalPrice |-> 0],
              cf_token |-> ""]

NoLocals == <<>>

Bound(r, name) == name \in DOMAIN local[r]

Init ==
  /\ now \in Clocks
  /\ pc = [r \in Requests |-> "idle"]
  /\ request = [r \in Requests |-> NoRequest]
  /\ local = [r \in Requests |-> NoLocals]
  /\ trace = [r \in Requests |-> <<>>]
  /\ outbox = [r \in Requests |-> <<>>]
  /\ responses = [r \in Requests |-> <<>>]

\* The handler of r ends with response resp.
Respond(r, resp) ==
  /\ responses' = [responses EXCEPT ![r] = Append(@, resp)]
  /\ pc' = [pc EXCEPT ![r] = "responded"]

Goto(r, label) ==
  /\ pc' = [pc EXCEPT ![r] = label]
  /\ UNCHANGED responses

Bind(r, name, value) == local' = [local EXCEPT ![r] = @ @@ (name :> value)]

Called(r, calls) == trace' = [trace EXCEPT ![r] = @ \o calls]

(***************************************************************************)
(* The clock advances by one hour.                                         *)
(***************************************************************************)
NextClock(clock) ==
  IF clock.hour + 1 < HoursPerDay
  THEN [clock EXCEPT !.hour = @ + 1]
  ELSE [weekday |-> (clock.weekday % Len(DayNames)) + 1, hour |-> 0]

Tick ==
  /\ now' = NextClock(now)
  /\ UNCHANGED <<pc, request, local, trace, outbox, responses>>

(***************************************************************************)
(* A request arrives.  FastAPI parses the body into an OrderRequest; when  *)
(* that fails it answers itself, else it calls process_order.              *)
(***************************************************************************)
Receive(r, req) ==
  /\ pc[r] = "idle"
  /\ request' = [request EXCEPT ![r] = req]
  /\ Called(r, <<Call("validate",
                        IF OrderRequestErrors(req) # <<>> THEN "raise" ELSE "ok")>>)
  /\ IF OrderRequestErrors(req) # <<>>
     THEN Respond(r, RequestValidationError(OrderRequestErrors(req)))
     ELSE Goto(r, "hours")
  /\ UNCHANGED <<now, local, outbox>>

\* One invocation at a time: a request arrives when no other is being handled.
Submit(r) ==
  /\ \A q \in Requests : pc[q] = "idle"
  /\ \E req \in OrderRequests : Receive(r, req)

\* A request with a cart of CartSpace arrives.
SubmitCart(r) ==
  /\ \A q \in Requests : pc[q] = "idle"
  /\ \E req \in CartRequests : Receive(r, req)

\* The app served by a concurrent ASGI server: a request arrives while
\* another is still being handled.
SubmitConcurrently(r) ==
  \E req \in OrderRequests : Receive(r, req)

(***************************************************************************)
(* process_order, statement by statement.  The adapter always supplies     *)
(* request.client, so reading client_ip (line 414) does nothing more.      *)
(***************************************************************************)
\* Mutant: the gate computes its verdict and forgets to raise.
HoursGateNoRaise(r) ==
  /\ pc[r] = "hours"
  /\ LET res == validate_business_hours(now)
     IN  /\ Bind(r, "is_valid_hours", res[1])
         /\ Called(r, <<Call("validate_business_hours",
                               IF res[1] THEN "open" ELSE "closed")>>)
         /\ Goto(r, "order_id")
  /\ UNCHANGED <<now, request, outbox>>

HoursGate(r) ==
  /\ pc[r] = "hours"
  /\ LET res == validate_business_hours(now)
     IN  /\ Bind(r, "is_valid_hours", res[1])
         /\ Called(r, <<Call("validate_business_hours",
                               IF res[1] THEN "open" ELSE "closed")>>)
         /\ IF ~res[1]
            THEN Respond(r, HTTPException(400, res[2]))
            ELSE Goto(r, "order_id")
  /\ UNCHANGED <<now, request, outbox>>

\* Mutant: order_id is a module-level name, overwritten by the latest request.
GenerateOrderIdShared(r) ==
  /\ pc[r] = "order_id"
  /\ \E uuid \in Uuid4Strings :
       local' = [q \in Requests |->
                   IF q = r \/ Bound(q, "order_id")
                   THEN ("order_id" :> MakeOrderId(uuid)) @@ local[q]
                   ELSE local[q]]
  /\ Called(r, <<Call("uuid4", "ok")>>)
  /\ Goto(r, "honeypot")
  /\ UNCHANGED <<now, request, outbox>>

GenerateOrderId(r) ==
  /\ pc[r] = "order_id"
  /\ \E uuid \in Uuid4Strings : Bind(r, "order_id", MakeOrderId(uuid))
  /\ Called(r, <<Call("uuid4", "ok")>>)
  /\ Goto(r, "honeypot")
  /\ UNCHANGED <<now, request, outbox>>

\* Mutant: the honeypot test is lost.
HoneypotNeverTriggered(verification) == FALSE

\* `if order_request.verification:`
HoneypotTriggered(verification) == verification # ""

\* Mutant: the bot is logged and the early return is missing.
HoneypotNoReturn(r) ==
  /\ pc[r] = "honeypot"
  /\ Goto(r, "verify")
  /\ Called(r, <<Call("honeypot",
                       IF HoneypotTriggered(request[r].verification)
                       THEN "bot" ELSE "empty")>>)
  /\ UNCHANGED <<now, request, local, outbox>>

\* Mutant: the decoy response is written by hand and lacks the message.
HoneypotTerse(r) ==
  /\ pc[r] = "honeypot"
  /\ IF HoneypotTriggered(request[r].verification)
     THEN Respond(r, JSONResponse(200, [success |-> TRUE,
                                        orderId |-> local[r].order_id]))
     ELSE Goto(r, "verify")
  /\ Called(r, <<Call("honeypot",
                       IF HoneypotTriggered(request[r].verification)
                       THEN "bot" ELSE "empty")>>)
  /\ UNCHANGED <<now, request, local, outbox>>

Honeypot(r) ==
  /\ pc[r] = "honeypot"
  /\ IF HoneypotTriggered(request[r].verification)
     THEN Respond(r, JSONResponse(200, SuccessContent(local[r].order_id)))
     ELSE Goto(r, "verify")
  /\ Called(r, <<Call("honeypot",
                       IF HoneypotTriggered(request[r].verification)
                       THEN "bot" ELSE "empty")>>)
  /\ UNCHANGED <<now, request, local, outbox>>

NetworkError == HTTPException(500, "Network error. Please try again.")

\* Mutant: no timeout on the POST; a call that gets no answer never returns.
VerifyTurnstileHangs(r) ==
  /\ pc[r] = "verify"
  /\ \E outcome \in TurnstileOutcomes :
       /\ Called(r, <<Call("siteverify", outcome)>>)
       /\ IF outcome = "timeout"
          THEN /\ Goto(r, "awaiting")
               /\ UNCHANGED local
          ELSE IF TurnstileRaises(outcome)
          THEN /\ Respond(r, NetworkError)
               /\ UNCHANGED local
          ELSE /\ Bind(r, "is_human", TurnstileReturn(outcome))
               /\ IF ~TurnstileReturn(outcome)
                  THEN Respond(r, HTTPException(400, "Security check failed"))
                  ELSE Goto(r, "domain")
  /\ UNCHANGED <<now, request, outbox>>

\* Mutant: the generic handler puts str(e) into the detail.
VerifyTurnstileLeaksFault(r) ==
  /\ pc[r] = "verify"
  /\ \E outcome \in TurnstileOutcomes :
       /\ Called(r, <<Call("siteverify", outcome)>>)
       /\ IF TurnstileRaises(outcome)
          THEN /\ Respond(r, HTTPException(500, outcome))
               /\ UNCHANGED local
          ELSE /\ Bind(r, "is_human", TurnstileReturn(outcome))
               /\ IF ~TurnstileReturn(outcome)
                  THEN Respond(r, HTTPException(400, "Security check failed"))
                  ELSE Goto(r, "domain")
  /\ UNCHANGED <<now, request, outbox>>

VerifyTurnstile(r) ==
  /\ pc[r] = "verify"
  /\ \E outcome \in TurnstileOutcomes :
       /\ Called(r, <<Call("siteverify", outcome)>>)
       /\ IF TurnstileRaises(outcome)
          THEN /\ Respond(r, NetworkError)
               /\ UNCHANGED local
          ELSE /\ Bind(r, "is_human", TurnstileReturn(outcome))
               /\ IF ~TurnstileReturn(outcome)
                  THEN Respond(r, HTTPException(400, "Security check failed"))
                  ELSE Goto(r, "domain")
  /\ UNCHANGED <<now, request, outbox>>

DomainCheck(r) ==
  /\ pc[r] = "domain"
  /\ \E mx \in DnsOutcomes, ns \in DnsOutcomes :
       LET d == is_domain_real(Lower(request[r].email), mx, ns)
       IN  /\ Called(r, <<Call("blocklist",
                                 IF DomainOf(Lower(request[r].email)) \in blocklist
                                 THEN "listed" ELSE "clean")>> \o d.lookups)
           /\ Bind(r, "domain_real", d.result)
           /\ IF ~d.result
              THEN Respond(r, HTTPException(400, "Please provide a valid email address."))
              ELSE Goto(r, "send_owner")
  /\ UNCHANGED <<now, request, outbox>>

\* Mutant: the dispatch failure is raised as a client error.
DispatchFailedAsBadRequest ==
  HTTPException(400, "Failed to send order confirmation. Please try again.")

DispatchFailed ==
  HTTPException(500, "Failed to send order confirmation. Please try again.")

\* Mutant: a failure of the owner send is caught on its own and the customer
\* send goes ahead.
SendOwnerIgnoresFailure(r) ==
  /\ pc[r] = "send_owner"
  /\ \E accepted \in BOOLEAN :
       IF accepted
       THEN /\ Called(r, <<Call("send_email", "ok")>>)
            /\ outbox' = [outbox EXCEPT ![r] =
                            Append(@, OwnerEmail(request[r], local[r].order_id))]
       ELSE /\ Called(r, <<Call("send_email", "raise")>>)
            /\ UNCHANGED outbox
  /\ Goto(r, "send_customer")
  /\ UNCHANGED <<now, request, local>>

\* send_order_emails up to and including the first ses_client.send_email.
\* Mutant: the owner is not notified again of a payload already notified.
SendOwnerOncePerPayload(r) ==
  /\ pc[r] = "send_owner"
  /\ \E accepted \in BOOLEAN :
       IF accepted
       THEN /\ Called(r, <<Call("send_email", "ok")>>)
            /\ outbox' = [outbox EXCEPT ![r] =
                            IF \E q \in Requests \ {r} :
                                 request[q] = request[r] /\ outbox[q] # <<>>
                            THEN @
                            ELSE Append(@, OwnerEmail(request[r], local[r].order_id))]
            /\ Goto(r, "send_customer")
            /\ UNCHANGED local
       ELSE /\ Called(r, <<Call("send_email", "raise")>>)
            /\ Bind(r, "email_sent", FALSE)
            /\ Respond(r, DispatchFailed)
            /\ UNCHANGED outbox
  /\ UNCHANGED <<now, request>>

SendOwner(r) ==
  /\ pc[r] = "send_owner"
  /\ \E accepted \in BOOLEAN :
       IF accepted
       THEN /\ Called(r, <<Call("send_email", "ok")>>)
            /\ outbox' = [outbox EXCEPT ![r] =
                            Append(@, OwnerEmail(request[r], local[r].order_id))]
            /\ Goto(r, "send_customer")
            /\ UNCHANGED local
       ELSE /\ Called(r, <<Call("send_email", "raise")>>)
            /\ Bind(r, "email_sent", FALSE)
            /\ Respond(r, DispatchFailed)
            /\ UNCHANGED outbox
  /\ UNCHANGED <<now, request>>

\* Mutant: a failure of the customer send is logged and not reported.
SendCustomerSwallowsFailure(r) ==
  /\ pc[r] = "send_customer"
  /\ \E accepted \in BOOLEAN :
       /\ IF accepted
          THEN /\ Called(r, <<Call("send_email", "ok")>>)
               /\ outbox' = [outbox EXCEPT ![r] =
                               Append(@, CustomerEmail(request[r], local[r].order_id))]
          ELSE /\ Called(r, <<Call("send_email", "raise")>>)
               /\ UNCHANGED outbox
       /\ Bind(r, "email_sent", TRUE)
       /\ Respond(r, JSONResponse(200, SuccessContent(local[r].order_id)))
  /\ UNCHANGED <<now, request>>

\* The second ses_client.send_email, and what process_order does with the
\* value send_order_emails returns.
SendCustomer(r) ==
  /\ pc[r] = "send_customer"
  /\ \E accepted \in BOOLEAN :
       IF accepted
       THEN /\ Called(r, <<Call("send_email", "ok")>>)
            /\ outbox' = [outbox EXCEPT ![r] =
                            Append(@, CustomerEmail(request[r], local[r].order_id))]
            /\ Bind(r, "email_sent", TRUE)
            /\ Respond(r, JSONResponse(200, SuccessContent(local[r].order_id)))
       ELSE /\ Called(r, <<Call("send_email", "raise")>>)
            /\ Bind(r, "email_sent", FALSE)
            /\ Respond(r, DispatchFailed)
            /\ UNCHANGED outbox
  /\ UNCHANGED <<now, request>>

(***************************************************************************)
(* The invocation ends: the response has gone out and everything scoped to *)
(* the request is dropped.                                                 *)
(***************************************************************************)
Finish(r) ==
  /\ pc[r] = "responded"
  /\ pc' = [pc EXCEPT ![r] = "idle"]
  /\ request' = [request EXCEPT ![r] = NoRequest]
  /\ local' = [local EXCEPT ![r] = NoLocals]
  /\ trace' = [trace EXCEPT ![r] = <<>>]
  /\ outbox' = [outbox EXCEPT ![r] = <<>>]
  /\ responses' = [responses EXCEPT ![r] = <<>>]
  /\ UNCHANGED now

process_order(r) ==
  \/ HoursGate(r)
  \/ GenerateOrderId(r)
  \/ Honeypot(r)
  \/ VerifyTurnstile(r)
  \/ DomainCheck(r)
  \/ SendOwner(r)
  \/ SendCustomer(r)

Next ==
  \/ Tick
  \/ \E r \in Requests : Submit(r)
  \/ \E r \in Requests : process_order(r)
  \/ \E r \in Requests : Finish(r)

Spec == Init /\ [][Next]_vars

\* Every outbound call returns or raises, so a handler that can take a step
\* takes it.
FairSpec == Spec /\ \A r \in Requests : WF_vars(process_order(r))

(***************************************************************************)
(* Two requests handled at the same time, at one reading of the clock: the *)
(* handlers' steps interleave freely (a superset of the interleavings at   *)
(* the await points), and a handled request stays in the state for         *)
(* comparison with the other.                                              *)
(***************************************************************************)
ConcurrentClocks ==
  {clock \in Clocks : clock.hour = OpenHour /\ clock.weekday \in {1, Len(DayNames)}}

InitConcurrent ==
  /\ now \in ConcurrentClocks
  /\ pc = [r \in Requests |-> "idle"]
  /\ request = [r \in Requests |-> NoRequest]
  /\ local = [r \in Requests |-> NoLocals]
  /\ trace = [r \in Requests |-> <<>>]
  /\ outbox = [r \in Requests |-> <<>>]
  /\ responses = [r \in Requests |-> <<>>]

NextConcurrent ==
  \/ \E r \in Requests : SubmitConcurrently(r)
  \/ \E r \in Requests : process_order(r)

ConcurrentSpec == InitConcurrent /\ [][NextConcurrent]_vars

(***************************************************************************)
(* Cart validation over CartSpace, one request at a time, on a weekday     *)
(* morning.                                                                *)
(***************************************************************************)
InitCart ==
  /\ now \in {clock \in ConcurrentClocks : validate_business_hours(clock)[1]}
  /\ pc = [r \in Requests |-> "idle"]
  /\ request = [r \in Requests |-> NoRequest]
  /\ local = [r \in Requests |-> NoLocals]
  /\ trace = [r \in Requests |-> <<>>]
  /\ outbox = [r \in Requests |-> <<>>]
  /\ responses = [r \in Requests |-> <<>>]

NextCart ==
  \/ \E r \in Requests : SubmitCart(r)
  \/ \E r \in Requests : process_order(r)
  \/ \E r \in Requests : Finish(r)

CartSpec == InitCart /\ [][NextCart]_vars

(***************************************************************************)
(* Vocabulary of the properties.                                           *)
(***************************************************************************)
Responded(r) == pc[r] = "responded"

Response(r) == responses[r][1]

\* The positions of trace[r] that are calls of `name`.
CallsTo(r, name) == { i \in 1..Len(trace[r]) : trace[r][i].call = name }

\* process_order was called for r: the request body passed validation.
Entered(r) == trace[r] # <<>> /\ trace[r][1] = Call("validate", "ok")

UpperHex ==
  {"0", "1", "2", "3", "4", "5", "6", "7", "8", "9", "A", "B", "C", "D", "E", "F"}

WellFormedOrderId(id) ==
  /\ DOMAIN id = 1..8
  /\ \A i \in DOMAIN id : id[i] \in UpperHex

\* HTTP 200 {success: true, orderId: <well-formed>, message: "Order placed successfully"}
IsSuccessResponse(resp) ==
  /\ resp.status_code = 200
  /\ DOMAIN resp.content = {"success", "orderId", "message"}
  /\ resp.content.success = TRUE
  /\ resp.content.message = "Order placed successfully"
  /\ WellFormedOrderId(resp.content.orderId)

IsRejection(resp, status_code, detail) ==
  resp = [status_code |-> status_code, content |-> [detail |-> detail]]

NoSend(r) == CallsTo(r, "send_email") = {} /\ outbox[r] = <<>>

(***************************************************************************)
(* C1 as stated: every request with a non-empty honeypot field that        *)
(* process_order handles is answered HTTP 200 with success, the message    *)
(* "Order placed successfully" and a well-formed order id, and no e-mail   *)
(* send is attempted.  Refuted: outside business hours the hours gate      *)
(* answers HTTP 400 before the honeypot is looked at.                      *)
(***************************************************************************)
C1_HoneypotAlwaysAccepted ==
  \A r \in Requests :
    (Responded(r) /\ Entered(r) /\ request[r].verification # "")
      => (IsSuccessResponse(Response(r)) /\ NoSend(r))

(***************************************************************************)
(* C1 amended: every request with a non-empty honeypot field that          *)
(* process_order handles within business hours is answered HTTP 200 with   *)
(* success = true, the message "Order placed successfully" and a           *)
(* well-formed 8-character uppercase order id, and no e-mail send is       *)
(* attempted.                                                              *)
(***************************************************************************)
C1_HoneypotAcceptedWhenOpen ==
  \A r \in Requests :
    (/\ Responded(r)
     /\ Entered(r)
     /\ request[r].verification # ""
     /\ Call("validate_business_hours", "open") \in
          { trace[r][i] : i \in 1..Len(trace[r]) })
      => (IsSuccessResponse(Response(r)) /\ NoSend(r))

C1_Witness ==
  \E r \in Requests :
    /\ Responded(r)
    /\ request[r].verification # ""
    /\ trace[r][Len(trace[r])] = Call("honeypot", "bot")
    /\ IsSuccessResponse(Response(r))

(***************************************************************************)
(* The gates, in the order the spec fixes, and the calls that belong to    *)
(* each (uuid4 belongs to none).                                           *)
(***************************************************************************)
GateOrder ==
  <<"structural", "hours", "honeypot", "verification", "domain", "dispatch">>

GateCalls(gate) ==
  CASE gate = "structural"   -> {"validate"}
    [] gate = "hours"        -> {"validate_business_hours"}
    [] gate = "honeypot"     -> {"honeypot"}
    [] gate = "verification" -> {"siteverify"}
    [] gate = "domain"       -> {"blocklist", "resolve:MX", "resolve:NS"}
    [] gate = "dispatch"     -> {"send_email"}

\* The index in GateOrder of the gate a call belongs to, 0 for none.
GateIndex(call) ==
  IF \E k \in DOMAIN GateOrder : call \in GateCalls(GateOrder[k])
  THEN CHOOSE k \in DOMAIN GateOrder : call \in GateCalls(GateOrder[k])
  ELSE 0

GateEvaluated(r, k) ==
  \E i \in 1..Len(trace[r]) : GateIndex(trace[r][i].call) = k

\* Gate k was evaluated for r and let the request through.
GatePassed(r, k) ==
  /\ GateEvaluated(r, k)
  /\ CASE GateOrder[k] = "structural"   -> OrderRequestErrors(request[r]) = <<>>
       [] GateOrder[k] = "hours"        -> Bound(r, "is_valid_hours") /\ local[r].is_valid_hours
       [] GateOrder[k] = "honeypot"     -> request[r].verification = ""
       [] GateOrder[k] = "verification" -> Bound(r, "is_human") /\ local[r].is_human
       [] GateOrder[k] = "domain"       -> Bound(r, "domain_real") /\ local[r].domain_real
       [] GateOrder[k] = "dispatch"     -> Bound(r, "email_sent") /\ local[r].email_sent

\* resp is the answer gate k gives when it stops the request.
IsResponseOfGate(resp, k, req) ==
  CASE GateOrder[k] = "structural" ->
         resp.status_code # 200 /\ resp.content.detail = OrderRequestErrors(req)
    [] GateOrder[k] = "hours" ->
         resp.status_code # 200 /\ resp.content.detail = HoursMessage
    [] GateOrder[k] = "honeypot" ->
         IsSuccessResponse(resp)
    [] GateOrder[k] = "verification" ->
         /\ resp.status_code # 200
         /\ resp.content.detail \in
              {"Security check failed", "Network error. Please try again."}
    [] GateOrder[k] = "domain" ->
         /\ resp.status_code # 200
         /\ resp.content.detail = "Please provide a valid email address."
    [] GateOrder[k] = "dispatch" ->
         /\ resp.status_code # 200
         /\ resp.content.detail = "Failed to send order confirmation. Please try again."

(***************************************************************************)
(* C2: the gates are evaluated in the order structural validation, hours,  *)
(* honeypot, verification token, domain, dispatch.  A gate is evaluated    *)
(* only after every earlier gate was evaluated and passed, and a request   *)
(* that a gate stops gets the response of the earliest gate it fails,      *)
(* whatever the later gates would have said.                               *)
(***************************************************************************)
C2_GateOrder ==
  \A r \in Requests :
    /\ \A i \in 1..Len(trace[r]) :
         LET k == GateIndex(trace[r][i].call)
         IN  k > 0 =>
               /\ \A j \in 1..(i - 1) : GateIndex(trace[r][j].call) <= k
               /\ \A e \in 1..(k - 1) :
                    /\ \E j \in 1..(i - 1) : GateIndex(trace[r][j].call) = e
                    /\ GatePassed(r, e)
    /\ Responded(r) =>
         LET failed == { k \in DOMAIN GateOrder : ~GatePassed(r, k) }
         IN  IF failed = {}
             THEN IsSuccessResponse(Response(r))
             ELSE LET first == CHOOSE k \in failed : \A e \in failed : k <= e
                  IN  /\ GateEvaluated(r, first)
                      /\ \A e \in failed : e # first => ~GateEvaluated(r, e)
                      /\ IsResponseOfGate(Response(r), first, request[r])

\* A request that would fail the hours gate, the honeypot and the domain
\* check is answered by the hours gate.
C2_Witness ==
  \E r \in Requests :
    /\ Responded(r)
    /\ Entered(r)
    /\ Bound(r, "is_valid_hours") /\ ~local[r].is_valid_hours
    /\ request[r].verification # ""
    /\ DomainOf(request[r].email) \in blocklist
    /\ IsResponseOfGate(Response(r), 2, request[r])

(***************************************************************************)
(* How a handled request ended, read off the last call of its call log.    *)
(***************************************************************************)
LastCall(r) == trace[r][Len(trace[r])]

Outcome(r) ==
  LET last == LastCall(r)
  IN  CASE last = Call("validate", "raise")                   -> "validation_failure"
        [] last = Call("validate_business_hours", "closed")   -> "hours_closure"
        [] last = Call("honeypot", "bot")                     -> "accepted_bot"
        [] last.call = "siteverify" /\ TurnstileRaises(last.result)
                                                              -> "internal_fault"
        [] last.call = "siteverify" /\ ~TurnstileRaises(last.result)
                                                              -> "verification_failure"
        [] last.call \in GateCalls("domain")                  -> "invalid_domain"
        [] last = Call("send_email", "raise")                 -> "dispatch_failure"
        [] last = Call("send_email", "ok")                    -> "accepted"

\* The status and message of each outcome, validation failures being answered
\* with validation_status.
StatusByOutcome(r, validation_status) ==
  LET resp == Response(r)
      out  == Outcome(r)
  IN  /\ out = "validation_failure" =>
           /\ resp.status_code = validation_status
           /\ resp.content.detail = OrderRequestErrors(request[r])
           /\ resp.content.detail # <<>>
      /\ out = "hours_closure" => IsRejection(resp, 400, HoursMessage)
      /\ out = "verification_failure" =>
           IsRejection(resp, 400, "Security check failed")
      /\ out = "invalid_domain" =>
           IsRejection(resp, 400, "Please provide a valid email address.")
      /\ out = "dispatch_failure" =>
           IsRejection(resp, 500, "Failed to send order confirmation. Please try again.")
      /\ out = "internal_fault" =>
           IsRejection(resp, 500, "Network error. Please try again.")
      /\ resp.status_code = 200 <=> out \in {"accepted", "accepted_bot"}
      /\ resp.status_code = 200 => IsSuccessResponse(resp)

(***************************************************************************)
(* C3 as stated: the status of every response is determined by the         *)
(* outcome: 400 with its own message for hours closure, verification       *)
(* failure, invalid e-mail domain and structural or cart-consistency       *)
(* validation failure; 500 with a generic message for dispatch failure and *)
(* internal fault; 200 only on acceptance.  Refuted: a request body that   *)
(* fails OrderRequest validation is answered HTTP 422 by the framework.    *)
(***************************************************************************)
C3_ValidationFailureIs400 ==
  \A r \in Requests : Responded(r) => StatusByOutcome(r, 400)

(***************************************************************************)
(* C3 amended: as stated, except that structural and cart-consistency      *)
(* validation failures are answered HTTP 422 with the list of validation   *)
(* errors.                                                                 *)
(***************************************************************************)
C3_StatusByOutcome ==
  \A r \in Requests : Responded(r) => StatusByOutcome(r, 422)

\* A cart whose totals do not match its items is answered 422.
C3_Witness ==
  \E r \in Requests :
    /\ Responded(r)
    /\ Outcome(r) = "validation_failure"
    /\ CartErrors(request[r].order) # <<>>
    /\ Response(r).status_code = 422

(***************************************************************************)
(* The verification call of r came back with one of `results`.             *)
(***************************************************************************)
VerificationCameBack(r, results) ==
  \E i \in CallsTo(r, "siteverify") : trace[r][i].result \in results

NoDomainCheck(r) ==
  \A i \in 1..Len(trace[r]) : trace[r][i].call \notin GateCalls("domain")

NegativeResults == {"success_false", "no_success_key"}

ErrorResults == {"invalid_json", "timeout"}

IntakePermitted(clock) ==
  /\ DayNames[clock.weekday] \in
       {"Monday", "Tuesday", "Wednesday", "Thursday", "Friday", "Saturday"}
  /\ 8 <= clock.hour
  /\ clock.hour < 20

OnlyCalls(r, names) == \A i \in 1..Len(trace[r]) : trace[r][i].call \in names

(***************************************************************************)
(* C5: whenever a request passes through the hours gate, the gate decides  *)
(* on the clock as it stands at that moment: it lets the request on to the *)
(* order id exactly when the day is Monday to Saturday and 8 <= hour < 20, *)
(* and otherwise answers HTTP 400 "Our business hours are Mon-Sat          *)
(* 8am-8pm." whatever the other fields of the request are, with no         *)
(* verification call, DNS lookup or e-mail send; and a request so rejected *)
(* never has any of these calls.                                           *)
(***************************************************************************)
C5_BusinessHours ==
  /\ [][\A r \in Requests :
          (pc[r] = "hours" /\ pc'[r] # "hours") =>
            /\ validate_business_hours(now)[1] = IntakePermitted(now)
            /\ IntakePermitted(now) =>
                 /\ pc'[r] = "order_id"
                 /\ responses'[r] = <<>>
            /\ ~IntakePermitted(now) =>
                 /\ pc'[r] = "responded"
                 /\ responses'[r] = <<HTTPException(400, HoursMessage)>>
                 /\ IsRejection(responses'[r][1], 400,
                                "Our business hours are Mon-Sat 8am-8pm.")]_vars
  /\ [](\A r \in Requests :
          (Responded(r) /\ LastCall(r).call = "validate_business_hours") =>
            /\ OnlyCalls(r, {"validate", "validate_business_hours"})
            /\ outbox[r] = <<>>
            /\ IsRejection(Response(r), 400, "Our business hours are Mon-Sat 8am-8pm."))

\* A bot request with a blocklisted address, rejected on a Saturday at 20h.
C5_Witness ==
  \E r \in Requests :
    /\ Responded(r)
    /\ LastCall(r) = Call("validate_business_hours", "closed")
    /\ now = [weekday |-> 6, hour |-> 20]
    /\ request[r].verification # ""
    /\ DomainOf(request[r].email) \in blocklist
    /\ IsRejection(Response(r), 400, HoursMessage)

(***************************************************************************)
(* What the resolver answered to r's lookups of a record type.             *)
(***************************************************************************)
Answers(r, rtype) == { trace[r][i].result : i \in CallsTo(r, rtype) }

DomainRejected(r) ==
  /\ Responded(r)
  /\ Bound(r, "domain_real") /\ ~local[r].domain_real
  /\ IsRejection(Response(r), 400, "Please provide a valid email address.")
  /\ NoSend(r)

(***************************************************************************)
(* C6: the e-mail domain check fails closed.  Once the check has run for a *)
(* request: if the domain is on the disposable blocklist no DNS lookup was *)
(* made and the request is rejected; if the MX lookup or the NS lookup     *)
(* returned nothing or raised (NoAnswer, NXDOMAIN, anything else) the      *)
(* request is rejected; rejected means is_domain_real returned False and   *)
(* the response is HTTP 400 "Please provide a valid email address.", with  *)
(* no e-mail send.  is_domain_real returns True only for a domain off the  *)
(* blocklist whose MX and NS lookups both returned records.                *)
(***************************************************************************)
C6_DomainFailsClosed ==
  \A r \in Requests :
    CallsTo(r, "blocklist") # {} =>
      LET domain == DomainOf(request[r].email)
          mx     == Answers(r, "resolve:MX")
          ns     == Answers(r, "resolve:NS")
      IN  /\ Bound(r, "domain_real")
          /\ domain \in blocklist => (DomainRejected(r) /\ mx = {} /\ ns = {})
          /\ mx \cap {"empty", "NoAnswer", "NXDOMAIN", "Timeout"} # {} => DomainRejected(r)
          /\ ns \cap {"empty", "NoAnswer", "NXDOMAIN", "Timeout"} # {} => DomainRejected(r)
          /\ local[r].domain_real =>
               (domain \notin blocklist /\ mx = {"records"} /\ ns = {"records"})
          /\ ~local[r].domain_real => DomainRejected(r)

\* The NS lookup timed out after the MX lookup had returned records.
C6_Witness ==
  \E r \in Requests :
    /\ Answers(r, "resolve:MX") = {"records"}
    /\ Answers(r, "resolve:NS") = {"Timeout"}
    /\ DomainRejected(r)

(***************************************************************************)
(* The two e-mails of an order.                                            *)
(***************************************************************************)
IsOwnerNotice(mail) ==
  mail.To = BUSINESS_EMAIL /\ mail.Subject[1] = "New Order Received - "

IsCustomerConfirmation(mail, req) ==
  mail.To = Lower(req.email) /\ mail.Subject[1] = "Order Confirmation - "

SendResults(r) == [i \in 1..Cardinality(CallsTo(r, "send_email")) |->
                    LET at == CHOOSE p \in CallsTo(r, "send_email") :
                                Cardinality({q \in CallsTo(r, "send_email") : q <= p}) = i
                    IN  trace[r][at].result]

AllGatesPassed(r) == \A k \in 1..5 : GatePassed(r, k)

(***************************************************************************)
(* C7: a request that passes every gate (valid structure, open hours,      *)
(* empty honeypot, accepted token, real domain) and whose two sends        *)
(* succeed has had exactly two send calls, the owner notice first and the  *)
(* customer confirmation second, both complete when the response exists,   *)
(* and is answered HTTP 200 {success, orderId, "Order placed               *)
(* successfully"}; and a 200 response to a request with an empty honeypot  *)
(* exists only if all gates passed and both sends were completed.  At all  *)
(* times the e-mails sent are a prefix of <<owner notice, customer         *)
(* confirmation>>.                                                         *)
(***************************************************************************)
C7_AcceptedAfterTwoSends ==
  \A r \in Requests :
    /\ Len(outbox[r]) <= 2
    /\ Len(outbox[r]) >= 1 => IsOwnerNotice(outbox[r][1])
    /\ Len(outbox[r]) = 2 => IsCustomerConfirmation(outbox[r][2], request[r])
    /\ (AllGatesPassed(r) /\ SendResults(r) = <<"ok", "ok">>) =>
         /\ Responded(r)
         /\ IsSuccessResponse(Response(r))
         /\ Response(r).content.orderId = local[r].order_id
         /\ Len(outbox[r]) = 2
    /\ (Responded(r) /\ Response(r).status_code = 200 /\ request[r].verification = "") =>
         /\ AllGatesPassed(r)
         /\ SendResults(r) = <<"ok", "ok">>
         /\ Len(outbox[r]) = 2

C7_Witness ==
  \E r \in Requests :
    /\ Responded(r)
    /\ request[r].verification = ""
    /\ IsSuccessResponse(Response(r))
    /\ Len(outbox[r]) = 2
    /\ IsOwnerNotice(outbox[r][1])
    /\ IsCustomerConfirmation(outbox[r][2], request[r])
    /\ outbox[r][2].To = <<"ann", "@", "example.com">>

(***************************************************************************)
(* A response is whole: a status with either the success body or a detail. *)
(***************************************************************************)
IsWholeResponse(resp) ==
  /\ DOMAIN resp = {"status_code", "content"}
  /\ \/ IsSuccessResponse(resp)
     \/ /\ resp.status_code \in {400, 500}
        /\ DOMAIN resp.content = {"detail"}
        /\ resp.content.detail # ""
     \/ /\ resp.status_code = 422
        /\ DOMAIN resp.content = {"detail"}
        /\ Len(resp.content.detail) >= 1

InFlight(r) == pc[r] \notin {"idle", "responded"}

SingleCalls ==
  {"validate", "validate_business_hours", "uuid4", "honeypot", "siteverify",
   "blocklist", "resolve:MX", "resolve:NS"}

(***************************************************************************)
(* C8: every request ends in exactly one response.  A request being        *)
(* handled eventually reaches the responded state (every outbound call     *)
(* returning or raising); a request has no response while it is handled    *)
(* and exactly one, whole and unchanging, once it is responded; and no     *)
(* gate or lookup is made twice, nor more than two sends, the second only  *)
(* after the first succeeded.                                              *)
(***************************************************************************)
C8_ExactlyOneResponse ==
  /\ \A r \in Requests : InFlight(r) ~> Responded(r)
  /\ [](\A r \in Requests :
          /\ Responded(r) <=> Len(responses[r]) = 1
          /\ ~Responded(r) => responses[r] = <<>>
          /\ Responded(r) => IsWholeResponse(Response(r))
          /\ \A name \in SingleCalls : Cardinality(CallsTo(r, name)) <= 1
          /\ SendResults(r) \in {<<>>, <<"ok">>, <<"raise">>, <<"ok", "ok">>, <<"ok", "raise">>})
  /\ [][\A r \in Requests :
          (Responded(r) /\ pc'[r] = "responded") =>
            (responses'[r] = responses[r] /\ trace'[r] = trace[r]
             /\ outbox'[r] = outbox[r])]_vars

\* A request answered once, after the second send failed.
C8_Witness ==
  \E r \in Requests :
    /\ Responded(r)
    /\ Len(responses[r]) = 1
    /\ SendResults(r) = <<"ok", "raise">>
    /\ IsWholeResponse(Response(r))

(***************************************************************************)
(* The order id an e-mail carries, in its subject and in its body.         *)
(***************************************************************************)
CarriesOrderId(mail, id) == mail.Subject[2] = id /\ mail.Html.order_id = id

OrderIdReused(r) ==
  /\ Bound(r, "order_id") <=> CallsTo(r, "uuid4") # {}
  /\ Bound(r, "order_id") => WellFormedOrderId(local[r].order_id)
  /\ (Responded(r) /\ Response(r).status_code = 200) =>
       Response(r).content.orderId = local[r].order_id
  /\ \A i \in 1..Len(outbox[r]) : CarriesOrderId(outbox[r][i], local[r].order_id)

(***************************************************************************)
(* C9 as stated: the order id is generated exactly once per request,       *)
(* immediately after structural validation succeeds, and is the orderId of *)
(* the response and the id in both e-mails.  Refuted: the hours gate runs  *)
(* between validation and the generation, and a request the hours gate     *)
(* rejects has no order id generated at all.                               *)
(***************************************************************************)
C9_GeneratedRightAfterValidation ==
  \A r \in Requests :
    /\ (Entered(r) /\ Len(trace[r]) >= 2) => trace[r][2].call = "uuid4"
    /\ (Entered(r) /\ Responded(r)) => Cardinality(CallsTo(r, "uuid4")) = 1
    /\ OrderIdReused(r)

(***************************************************************************)
(* C9 amended: the order id is generated at most once per request: exactly *)
(* once, immediately after the hours gate has permitted the request and    *)
(* before the honeypot is looked at, and never for a request the hours     *)
(* gate rejects.  That one id is reused unchanged on the honeypot path and *)
(* on the human path: it is the orderId of the 200 response and the id in  *)
(* the subject and body of both e-mails.                                   *)
(***************************************************************************)
C9_OrderIdOnce ==
  /\ [](\A r \in Requests :
          /\ Cardinality(CallsTo(r, "uuid4")) <= 1
          /\ \A i \in CallsTo(r, "uuid4") :
               /\ i = 3
               /\ trace[r][1] = Call("validate", "ok")
               /\ trace[r][2] = Call("validate_business_hours", "open")
          /\ (Len(trace[r]) >= 3 /\ trace[r][2] = Call("validate_business_hours", "open"))
               => trace[r][3].call = "uuid4"
          /\ (Responded(r) /\ LastCall(r) = Call("validate_business_hours", "closed"))
               => CallsTo(r, "uuid4") = {}
          /\ (Responded(r) /\ Response(r).status_code = 200)
               => Cardinality(CallsTo(r, "uuid4")) = 1
          /\ OrderIdReused(r))
  /\ [][\A r \in Requests :
          (Bound(r, "order_id") /\ pc'[r] # "idle") =>
            local'[r].order_id = local[r].order_id]_vars

\* An accepted order: the response and both e-mails carry the one id.
C9_Witness ==
  \E r \in Requests :
    /\ Responded(r)
    /\ Len(outbox[r]) = 2
    /\ Response(r).status_code = 200
    /\ CarriesOrderId(outbox[r][1], Response(r).content.orderId)
    /\ CarriesOrderId(outbox[r][2], Response(r).content.orderId)
    /\ Response(r).content.orderId = <<"7", "7", "0", "4", "2", "9", "5", "5">>

(***************************************************************************)
(* A send of r raised.                                                     *)
(***************************************************************************)
SendFailed(r) == \E i \in CallsTo(r, "send_email") : trace[r][i].result = "raise"

(***************************************************************************)
(* C10: if either of the two sends fails the request is answered HTTP 500  *)
(* "Failed to send order confirmation. Please try again." and never 200;   *)
(* the failed send is the last call of the request (no retry, no further   *)
(* send); and the caller sees one outcome for the two sends: email_sent is *)
(* True exactly when both sends completed, and False answers 500.          *)
(***************************************************************************)
C10_DispatchFailure ==
  \A r \in Requests :
    /\ SendFailed(r) =>
         /\ Responded(r)
         /\ IsRejection(Response(r), 500,
                        "Failed to send order confirmation. Please try again.")
         /\ LastCall(r) = Call("send_email", "raise")
         /\ Cardinality({ i \in CallsTo(r, "send_email") : trace[r][i].result = "raise" }) = 1
         /\ Bound(r, "email_sent") /\ ~local[r].email_sent
    /\ Cardinality(CallsTo(r, "send_email")) <= 2
    /\ Bound(r, "email_sent") =>
         /\ Responded(r)
         /\ local[r].email_sent <=> SendResults(r) = <<"ok", "ok">>
         /\ local[r].email_sent <=> Response(r).status_code = 200
         /\ ~local[r].email_sent <=> Response(r) = DispatchFailed

\* The customer confirmation failed after the owner notice had gone out.
C10_Witness ==
  \E r \in Requests :
    /\ Responded(r)
    /\ SendResults(r) = <<"ok", "raise">>
    /\ Len(outbox[r]) = 1
    /\ Response(r).status_code = 500

(***************************************************************************)
(* C11: on the honeypot path everything after the honeypot is skipped.     *)
(* Once a request with a non-empty honeypot field has had its honeypot     *)
(* looked at, the honeypot is the last thing done for it: the request is   *)
(* responded, and its call log holds no verification call, no blocklist or *)
(* DNS lookup and no e-mail send, and nothing was sent.                    *)
(***************************************************************************)
C11_HoneypotSkipsTheRest ==
  \A r \in Requests :
    (request[r].verification # "" /\ CallsTo(r, "honeypot") # {}) =>
      /\ Responded(r)
      /\ LastCall(r).call = "honeypot"
      /\ OnlyCalls(r, {"validate", "validate_business_hours", "uuid4", "honeypot"})
      /\ CallsTo(r, "siteverify") = {}
      /\ NoDomainCheck(r)
      /\ NoSend(r)

\* A bot request with an address that would have passed the blocklist.
C11_Witness ==
  \E r \in Requests :
    /\ Responded(r)
    /\ request[r].verification # ""
    /\ DomainOf(request[r].email) \notin blocklist
    /\ LastCall(r) = Call("honeypot", "bot")
    /\ Len(trace[r]) = 4

(***************************************************************************)
(* C13: an unexpected fault inside the orchestration that is not one of    *)
(* the named gate rejections (here: the verification call raising, for an  *)
(* unparsable answer or a timeout) is answered HTTP 500 with the body      *)
(* {"detail": "Network error. Please try again."}.  The body is the same   *)
(* record whatever the fault was, it has no other key, and its text names  *)
(* no fault; no named gate rejection is answered with it.                  *)
(***************************************************************************)
C13_FaultIsGeneric500 ==
  \A r \in Requests :
    Responded(r) =>
      /\ Outcome(r) = "internal_fault" =>
           /\ Response(r).status_code = 500
           /\ DOMAIN Response(r).content = {"detail"}
           /\ Response(r).content.detail = "Network error. Please try again."
           /\ \A fault \in ErrorResults : Response(r).content.detail # fault
           /\ NoSend(r)
      /\ (Response(r).status_code = 500 /\ Outcome(r) # "internal_fault") =>
           /\ Outcome(r) = "dispatch_failure"
           /\ Response(r).content.detail # "Network error. Please try again."

\* The verification call has timed out on a request that had passed the
\* hours gate and the honeypot test, and the request is answered.
C13_Witness ==
  \E r \in Requests :
    /\ Responded(r)
    /\ LastCall(r) = Call("siteverify", "timeout")
    /\ Response(r).status_code = 500
    /\ Len(trace[r]) = 5

\* Requests a and b carry the same fields except the honeypot, which is empty
\* in a and filled in b.
DifferOnlyInHoneypot(a, b) ==
  /\ request[a].verification = ""
  /\ request[b].verification # ""
  /\ request[a] = [request[b] EXCEPT !.verification = ""]

(***************************************************************************)
(* C12: the honeypot response is indistinguishable from a real one.  Of    *)
(* two requests handled at the same reading of the clock that differ only  *)
(* in the honeypot field, the one with the empty field fully accepted and  *)
(* the other answered, the two responses have the same status code, the    *)
(* same set of body keys, the same success flag and message, and an        *)
(* orderId of the same format (8 uppercase hexadecimal characters).        *)
(***************************************************************************)
C12_HoneypotIndistinguishable ==
  \A a, b \in Requests :
    (/\ Responded(a) /\ Responded(b)
     /\ DifferOnlyInHoneypot(a, b)
     /\ Outcome(a) = "accepted") =>
      /\ Response(a).status_code = Response(b).status_code
      /\ DOMAIN Response(a).content = DOMAIN Response(b).content
      /\ Response(a).content.success = Response(b).content.success
      /\ Response(a).content.message = Response(b).content.message
      /\ WellFormedOrderId(Response(a).content.orderId)
      /\ WellFormedOrderId(Response(b).content.orderId)

\* A real order fully accepted, with its two e-mails out, next to the same
\* request with the honeypot filled, answered without any send.
C12_Witness ==
  \E a, b \in Requests :
    /\ Responded(a) /\ Responded(b)
    /\ DifferOnlyInHoneypot(a, b)
    /\ Outcome(a) = "accepted" /\ Len(outbox[a]) = 2
    /\ Outcome(b) = "accepted_bot" /\ outbox[b] = <<>>
    /\ Response(a).content.orderId # Response(b).content.orderId

\* What is scoped to request r.
Scope(r) == <<pc[r], request[r], local[r], trace[r], outbox[r], responses[r]>>

\* The e-mails r has sent are those of its own payload and its own order id:
\* as many of <<owner notice, customer confirmation>> as it has completed sends.
OwnEmails(r) ==
  LET sent == Cardinality({i \in CallsTo(r, "send_email") : trace[r][i].result = "ok"})
  IN  IF sent = 0
      THEN outbox[r] = <<>>
      ELSE outbox[r] = SubSeq(<<OwnerEmail(request[r], local[r].order_id),
                                CustomerEmail(request[r], local[r].order_id)>>, 1, sent)

\* The response of r is the one its own payload and its own outcomes dictate.
OwnResponse(r) ==
  Responded(r) =>
    /\ StatusByOutcome(r, 422)
    /\ Outcome(r) = "internal_fault" => Response(r) = NetworkError
    /\ Outcome(r) \in {"accepted", "accepted_bot"} =>
         Response(r) = JSONResponse(200, SuccessContent(local[r].order_id))

(***************************************************************************)
(* C14: the handler is reentrant.  With two requests handled concurrently, *)
(* every step is a step of one request and leaves everything scoped to the *)
(* other as it was; each request's response and e-mails are those its own  *)
(* payload, its own call outcomes and its own order id dictate, exactly as *)
(* when it runs alone; and the order id in a request's e-mails is the one   *)
(* in that request's response.                                             *)
(***************************************************************************)
C14_Reentrant ==
  /\ [][\A r, q \in Requests :
          (r # q /\ Scope(r)' # Scope(r)) => Scope(q)' = Scope(q)]_vars
  /\ [](\A r \in Requests :
          /\ OwnEmails(r)
          /\ OwnResponse(r)
          /\ OrderIdReused(r)
          /\ (Responded(r) /\ Response(r).status_code = 200) =>
               \A i \in 1..Len(outbox[r]) :
                 CarriesOrderId(outbox[r][i], Response(r).content.orderId))

\* Both handlers are under way at once, with different order ids: one has
\* sent its owner notice, the other has come back from the verification call.
C14_Witness ==
  \E a, b \in Requests :
    /\ pc[a] = "send_customer" /\ Len(outbox[a]) = 1
    /\ pc[b] = "domain"
    /\ local[a].order_id # local[b].order_id

\* Request r passed every gate and both of its sends were completed.
FullyAccepted(r) == Responded(r) /\ Outcome(r) = "accepted"

(***************************************************************************)
(* C18: there is no deduplication.  Of two requests with identical         *)
(* payloads, the second is accepted whenever its own gates pass and its    *)
(* own two sends complete, whatever became of the first; and when both are *)
(* accepted, each has generated an order id by a uuid4 call of its own,    *)
(* each is answered with its own id, and each has caused two sends of its  *)
(* own, four in all.                                                       *)
(***************************************************************************)
C18_NoDeduplication ==
  \A a, b \in Requests :
    (a # b /\ Responded(b) /\ request[a] = request[b]) =>
      /\ (AllGatesPassed(b) /\ SendResults(b) = <<"ok", "ok">>) =>
           /\ FullyAccepted(b)
           /\ IsSuccessResponse(Response(b))
      /\ (FullyAccepted(a) /\ FullyAccepted(b)) =>
           /\ \A r \in {a, b} :
                /\ Cardinality(CallsTo(r, "uuid4")) = 1
                /\ Response(r).content.orderId = local[r].order_id
                /\ Cardinality(CallsTo(r, "send_email")) = 2
                /\ Len(outbox[r]) = 2
                /\ IsOwnerNotice(outbox[r][1])
                /\ IsCustomerConfirmation(outbox[r][2], request[r])
                /\ \A i \in 1..2 : CarriesOrderId(outbox[r][i], local[r].order_id)
           /\ Len(outbox[a]) + Len(outbox[b]) = 4

\* The same payload accepted twice, under two different order ids.
C18_Witness ==
  \E a, b \in Requests :
    /\ a # b
    /\ request[a] = request[b]
    /\ FullyAccepted(a) /\ FullyAccepted(b)
    /\ Response(a).content.orderId # Response(b).content.orderId
    /\ Len(outbox[a]) + Len(outbox[b]) = 4

\* The response of r is the HTTP 500 of a failed dispatch.
DispatchFailureReported(r) ==
  /\ Responded(r)
  /\ IsRejection(Response(r), 500, "Failed to send order confirmation. Please try again.")

(***************************************************************************)
(* C20 as stated: whenever the response is the HTTP 500 dispatch failure,  *)
(* no e-mail of that request has been delivered.  Refuted: the owner       *)
(* notice is sent first, and a failure of the customer send is reported    *)
(* after the owner notice has gone out.                                    *)
(***************************************************************************)
C20_NoEmailOnDispatchFailure ==
  \A r \in Requests : DispatchFailureReported(r) => outbox[r] = <<>>

(***************************************************************************)
(* C20, amended: whenever the response is the HTTP 500 dispatch failure,   *)
(* the customer confirmation of that request has not been delivered, and   *)
(* at most the owner notice has: nothing when the owner send failed, the   *)
(* owner notice alone when the owner send succeeded and the customer send  *)
(* failed.                                                                 *)
(***************************************************************************)
C20_AtMostOwnerNoticeOnDispatchFailure ==
  \A r \in Requests :
    DispatchFailureReported(r) =>
      /\ SendResults(r) \in {<<"raise">>, <<"ok", "raise">>}
      /\ Len(outbox[r]) = Len(SendResults(r)) - 1
      /\ \A i \in 1..Len(outbox[r]) :
           /\ IsOwnerNotice(outbox[r][i])
           /\ outbox[r][i].To # Lower(request[r].email)
           /\ ~IsCustomerConfirmation(outbox[r][i], request[r])

\* The owner has been told of an order whose customer is told it failed.
C20_Witness ==
  \E r \in Requests :
    /\ DispatchFailureReported(r)
    /\ Len(outbox[r]) = 1
    /\ IsOwnerNotice(outbox[r][1])
    /\ CarriesOrderId(outbox[r][1], local[r].order_id)

\* Request r has been through validation.
Validated(r) == trace[r] # <<>>

\* Validation of r failed, and msg is among the errors of the answer.
FailsWith(r, msg) ==
  /\ Responded(r)
  /\ LastCall(r) = Call("validate", "raise")
  /\ Response(r).status_code = 422
  /\ \E i \in DOMAIN Response(r).content.detail : Response(r).content.detail[i] = msg

\* Validation of r failed, for whatever reason, and nothing else was done.
Rejected(r) ==
  /\ Responded(r)
  /\ trace[r] = <<Call("validate", "raise")>>
  /\ Response(r).status_code = 422
  /\ ~Entered(r)

MinimumOrderMessage == "Our minimum order size for delivery is 3 items."

QtyMismatchMessage == "Total quantity does not match sum of item quantities"

PriceMismatchMessage == "Total price does not match sum of item prices"

NotNegativeMessage == "ensure this value is greater than or equal to 0"

QtySum(cart) == SumOver(cart.items, DOMAIN cart.items, "qty")

\* The sum of the item prices as written, in cents.
CentSum(cart) == SumOver(cart.items, DOMAIN cart.items, "price")

(***************************************************************************)
(* C15 as stated: every cart with a declared totalQty below 3, 0 and       *)
(* negative values included, carts with invalid items or a mismatching sum *)
(* included, fails validation with the minimum-order error.  Refuted: a    *)
(* negative totalQty fails the >= 0 constraint of the field, which runs    *)
(* before validate_min_quantity, and the minimum-order error is not given. *)
(***************************************************************************)
C15_BelowMinimumIsMinimumOrderError ==
  \A r \in Requests :
    (Validated(r) /\ request[r].order.totalQty < MinOrderQty) =>
      FailsWith(r, MinimumOrderMessage)

(***************************************************************************)
(* C15, amended: every cart with a declared totalQty below 3 fails         *)
(* validation, whatever its items and sums are: with the minimum-order     *)
(* error when 0 <= totalQty < 3, and with the error of the field's >= 0    *)
(* constraint, not the minimum-order error, when totalQty is negative.     *)
(* Below the minimum the quantity-mismatch error is never given.           *)
(***************************************************************************)
C15_BelowMinimum ==
  \A r \in Requests :
    (Validated(r) /\ request[r].order.totalQty < MinOrderQty) =>
      /\ Rejected(r)
      /\ request[r].order.totalQty >= 0 => FailsWith(r, MinimumOrderMessage)
      /\ request[r].order.totalQty < 0 =>
           /\ FailsWith(r, NotNegativeMessage)
           /\ ~FailsWith(r, MinimumOrderMessage)
      /\ ~FailsWith(r, QtyMismatchMessage)

\* A cart declaring 2 items, with an invalid item and a sum of quantities
\* that is not 2, rejected with the minimum-order error.
C15_Witness ==
  \E r \in Requests :
    /\ Validated(r)
    /\ request[r].order.totalQty = MinOrderQty - 1
    /\ ~ItemsValid(request[r].order)
    /\ QtySum(request[r].order) # request[r].order.totalQty
    /\ FailsWith(r, MinimumOrderMessage)

(***************************************************************************)
(* C16 as stated: every cart whose sum of item quantities differs from the *)
(* declared totalQty fails validation with the quantity-mismatch error.    *)
(* Refuted: below the minimum order size the minimum-order error is raised *)
(* first, and with an invalid item the comparison is skipped.              *)
(***************************************************************************)
C16_MismatchIsQtyMismatchError ==
  \A r \in Requests :
    (Validated(r) /\ QtySum(request[r].order) # request[r].order.totalQty) =>
      FailsWith(r, QtyMismatchMessage)

(***************************************************************************)
(* C16, amended: no cart whose sum of item quantities differs from the     *)
(* declared totalQty is accepted: validation fails and process_order is    *)
(* not called.  The failure carries the quantity-mismatch error exactly    *)
(* when every item is valid and totalQty >= 3; with totalQty < 3 the       *)
(* error of totalQty is the minimum-order or >= 0 error, and with an       *)
(* invalid item the comparison is skipped and the item error is reported.  *)
(***************************************************************************)
C16_QuantityMismatch ==
  \A r \in Requests :
    (Validated(r) /\ QtySum(request[r].order) # request[r].order.totalQty) =>
      /\ Rejected(r)
      /\ FailsWith(r, QtyMismatchMessage) <=>
           (ItemsValid(request[r].order) /\ request[r].order.totalQty >= MinOrderQty)
      /\ ~ItemsValid(request[r].order) => FailsWith(r, "invalid cart item")
      /\ request[r].order.totalQty < MinOrderQty =>
           (FailsWith(r, MinimumOrderMessage) \/ FailsWith(r, NotNegativeMessage))

\* Valid items, 4 declared, a different sum: the quantity-mismatch error.
C16_Witness ==
  \E r \in Requests :
    /\ Validated(r)
    /\ ItemsValid(request[r].order)
    /\ request[r].order.totalQty = MinOrderQty + 1
    /\ QtySum(request[r].order) = MinOrderQty
    /\ FailsWith(r, QtyMismatchMessage)
    /\ ~FailsWith(r, PriceMismatchMessage)

(***************************************************************************)
(* C17: for every cart (here: with valid items and a declared totalPrice   *)
(* that is not negative), if the sum of the item prices differs from the   *)
(* declared totalPrice by more than 0.01 validation fails with the         *)
(* price-mismatch error, and a difference of at most 0.01 is accepted: the *)
(* price-mismatch error is not given.  Violated by the code: the floats of *)
(* 10.00 + 10.00 and of 20.01 differ by 0.010000000000001563, which is     *)
(* more than the float 0.01, and the cart is rejected.                     *)
(***************************************************************************)
C17_PriceTolerance ==
  \A r \in Requests :
    (/\ Validated(r)
     /\ ItemsValid(request[r].order)
     /\ request[r].order.totalPrice >= 0) =>
      /\ Abs(CentSum(request[r].order) - request[r].order.totalPrice) > 1 =>
           FailsWith(r, PriceMismatchMessage)
      /\ Abs(CentSum(request[r].order) - request[r].order.totalPrice) <= 1 =>
           ~FailsWith(r, PriceMismatchMessage)

\* An e-mail of r was sent, or a send was attempted.
DispatchReached(r) == outbox[r] # <<>> \/ CallsTo(r, "send_email") # {}

(***************************************************************************)
(* C19: no e-mail is sent for a request that has not passed every gate.    *)
(* Whenever an e-mail of a request has been sent (or a send attempted),    *)
(* the request's cart has totalQty equal to the sum of the item            *)
(* quantities, a totalPrice within 0.01 of the sum of the item prices and  *)
(* totalQty >= 3; the hours gate permitted the request; its honeypot field *)
(* is empty; the verification call returned success; and is_domain_real    *)
(* returned True, the domain being off the blocklist with MX and NS        *)
(* records found.                                                          *)
(***************************************************************************)
C19_EmailOnlyAfterAllGates ==
  \A r \in Requests :
    DispatchReached(r) =>
      /\ ItemsValid(request[r].order)
      /\ QtySum(request[r].order) = request[r].order.totalQty
      /\ Abs(CentSum(request[r].order) - request[r].order.totalPrice) <= 1
      /\ request[r].order.totalQty >= MinOrderQty
      /\ trace[r][1] = Call("validate", "ok")
      /\ trace[r][2] = Call("validate_business_hours", "open")
      /\ local[r].is_valid_hours
      /\ request[r].verification = ""
      /\ trace[r][4] = Call("honeypot", "empty")
      /\ trace[r][5] = Call("siteverify", "success_true")
      /\ local[r].is_human
      /\ DomainOf(Lower(request[r].email)) \notin blocklist
      /\ SubSeq(trace[r], 6, 8) = <<Call("blocklist", "clean"),
                                    Call("resolve:MX", "records"),
                                    Call("resolve:NS", "records")>>
      /\ local[r].domain_real
      /\ \A i \in CallsTo(r, "send_email") : i > 8

\* Both e-mails are out for a cart whose declared price is a cent off the
\* sum of its item prices.
C19_Witness ==
  \E r \in Requests :
    /\ Len(outbox[r]) = 2
    /\ CentSum(request[r].order) # request[r].order.totalPrice
    /\ Responded(r)

====
